---- MODULE Spec2Model ----
(***************************************************************************)
(* Query Execution Broker of sql-browser: SqlService (executeQuery,        *)
(* cancelQuery, _getOrCreatePool), the SQL pool registry of                *)
(* config/database.js, the role policy of config/roles.js and the          *)
(* QueryHistoryModel writes they issue.                                    *)
(*                                                                         *)
(* Node runs one callback at a time; every `await` is a point where other  *)
(* callbacks interleave.  Each action below is one run-to-completion       *)
(* segment of a handler, from one await to the next.                       *)
(*                                                                         *)
(* Text (SQL, error messages) is a sequence of one-character strings so    *)
(* that trim / toUpperCase / startsWith / includes are computed.           *)
(***************************************************************************)
EXTENDS Integers, Sequences, FiniteSets, TLC

VARIABLES
    pc,              \* position of each executeQuery invocation
    call,            \* its arguments {connectionId, sql, userId, userRole}
    local,           \* its locals: queryHistoryId, pool, update in flight, error thrown
    result,          \* what the invocation returned or threw
    history,         \* query_history rows by id
    runningQueries,  \* Map queryHistoryId -> {request, userId, connectionId}
    requests,        \* mssql Request objects: cancel() delivered or not
    sqlPools,        \* Map poolKey -> pool
    pools,           \* ConnectionPool objects constructed so far
    cpc,             \* position of each cancelQuery invocation
    ccall,           \* its arguments (queryId, userId)
    cwrite,          \* its history update in flight
    cresult,         \* how the last cancelQuery of the slot ended
    issued,          \* per id: terminal-status updates issued so far
    faults,          \* statements the metadata store has rejected so far
    authRole,        \* role under test      (role policy specification)
    authSql,         \* statement under test (role policy specification)
    authResult,      \* canExecuteStatement(authRole, authSql)
    userQueries,     \* what the last getRunningQueries call returned
    page             \* the query page of the frontend: its state and requests

vars == <<pc, call, local, result, history, runningQueries, requests, sqlPools,
          pools, cpc, ccall, cwrite, cresult, issued, faults,
          authRole, authSql, authResult, userQueries, page>>

brokerVars == <<pc, call, local, result, history, runningQueries, requests,
                sqlPools, pools, cpc, ccall, cwrite, cresult, issued, faults>>

policyVars == <<authRole, authSql, authResult>>

Null == "null"

\* `let queryHistoryId = null`: no id, no object
NoId == 0

Min(a, b) == IF a < b THEN a ELSE b

\* a delete that empties the map
MapDelete_Clear(map, id) == << >>

\* Map.prototype.delete(id): no-op when the key is absent
MapDelete(map, id) == [k \in DOMAIN map \ {id} |-> map[k]]

\* Map.prototype.set(id, entry)
MapSet(map, id, entry) ==
    [k \in DOMAIN map \cup {id} |-> IF k = id THEN entry ELSE map[k]]

-----------------------------------------------------------------------------
(* Text *)

NoText == << >>

Lower == <<"a", "b", "c", "d", "e", "f", "g", "h", "i", "j", "k", "l", "m",
           "n", "o", "p", "q", "r", "s", "t", "u", "v", "w", "x", "y", "z">>
Upper == <<"A", "B", "C", "D", "E", "F", "G", "H", "I", "J", "K", "L", "M",
           "N", "O", "P", "Q", "R", "S", "T", "U", "V", "W", "X", "Y", "Z">>

Whitespace == {" ", "\n", "\t"}

UpperChar(c) ==
    IF \E i \in 1..Len(Lower) : Lower[i] = c
    THEN Upper[CHOOSE i \in 1..Len(Lower) : Lower[i] = c]
    ELSE c

\* String.prototype.toUpperCase
ToUpperCase(s) == [i \in 1..Len(s) |-> UpperChar(s[i])]

\* String.prototype.trim
Trim(s) ==
    LET keep == {i \in 1..Len(s) : s[i] \notin Whitespace}
    IN  IF keep = {} THEN NoText
        ELSE LET lo == CHOOSE i \in keep : \A j \in keep : i <= j
                 hi == CHOOSE i \in keep : \A j \in keep : j <= i
             IN  SubSeq(s, lo, hi)

\* String.prototype.startsWith
StartsWith(s, p) == Len(p) <= Len(s) /\ SubSeq(s, 1, Len(p)) = p

\* String.prototype.includes
Includes(s, p) ==
    \E i \in 0..(Len(s) - Len(p)) : SubSeq(s, i + 1, i + Len(p)) = p

-----------------------------------------------------------------------------
(* config/roles.js *)

KW_SELECT   == <<"S", "E", "L", "E", "C", "T">>
KW_INSERT   == <<"I", "N", "S", "E", "R", "T">>
KW_UPDATE   == <<"U", "P", "D", "A", "T", "E">>
KW_DELETE   == <<"D", "E", "L", "E", "T", "E">>
KW_MERGE    == <<"M", "E", "R", "G", "E">>
KW_CREATE   == <<"C", "R", "E", "A", "T", "E">>
KW_ALTER    == <<"A", "L", "T", "E", "R">>
KW_DROP     == <<"D", "R", "O", "P">>
KW_TRUNCATE == <<"T", "R", "U", "N", "C", "A", "T", "E">>
KW_GRANT    == <<"G", "R", "A", "N", "T">>
KW_REVOKE   == <<"R", "E", "V", "O", "K", "E">>
KW_EXECUTE  == <<"E", "X", "E", "C", "U", "T", "E">>
KW_EXEC     == <<"E", "X", "E", "C">>
KW_ALL      == <<"*">>

\* 'SELECT TOP 100 * FROM sys.tables', the text the editor starts with
DefaultQuery ==
    <<"S", "E", "L", "E", "C", "T", " ", "T", "O", "P", " ", "1", "0", "0",
      " ", "*", " ", "F", "R", "O", "M", " ",
      "s", "y", "s", ".", "t", "a", "b", "l", "e", "s">>

ROLES == {"VIEWER", "ANALYST", "DEVELOPER", "ADMIN"}

\* a role name outside the fixed set, as a token may carry one
UnknownRole == "GUEST"

RoleNames == ROLES \cup {UnknownRole}

\* `${role}` in a message
RoleText(role) ==
    CASE role = "VIEWER"    -> <<"V", "I", "E", "W", "E", "R">>
      [] role = "ANALYST"   -> <<"A", "N", "A", "L", "Y", "S", "T">>
      [] role = "DEVELOPER" -> <<"D", "E", "V", "E", "L", "O", "P", "E", "R">>
      [] role = "ADMIN"     -> <<"A", "D", "M", "I", "N">>
      [] OTHER              -> <<"G", "U", "E", "S", "T">>

\* the order of increasing privilege in which ROLES lists the roles
RoleOrder == <<"VIEWER", "ANALYST", "DEVELOPER", "ADMIN">>

\* a table in which DEVELOPER loses the UPDATE that ANALYST has
ROLE_PERMISSIONS_DeveloperNoUpdate ==
    [r \in ROLES |->
        CASE r = "VIEWER" ->
               [allowedStatements |-> <<KW_SELECT>>,
                maxRows |-> 1000, queryTimeoutMs |-> 30000]
          [] r = "ANALYST" ->
               [allowedStatements |-> <<KW_SELECT, KW_INSERT, KW_UPDATE>>,
                maxRows |-> 5000, queryTimeoutMs |-> 60000]
          [] r = "DEVELOPER" ->
               [allowedStatements |->
                    <<KW_SELECT, KW_INSERT, KW_DELETE, KW_MERGE>>,
                maxRows |-> 10000, queryTimeoutMs |-> 120000]
          [] OTHER ->
               [allowedStatements |-> <<KW_ALL>>,
                maxRows |-> 50000, queryTimeoutMs |-> 300000]]

ROLE_PERMISSIONS ==
    [r \in ROLES |->
        CASE r = "VIEWER" ->
               [allowedStatements |-> <<KW_SELECT>>,
                maxRows |-> 1000, queryTimeoutMs |-> 30000]
          [] r = "ANALYST" ->
               [allowedStatements |-> <<KW_SELECT, KW_INSERT, KW_UPDATE>>,
                maxRows |-> 5000, queryTimeoutMs |-> 60000]
          [] r = "DEVELOPER" ->
               [allowedStatements |->
                    <<KW_SELECT, KW_INSERT, KW_UPDATE, KW_DELETE, KW_MERGE>>,
                maxRows |-> 10000, queryTimeoutMs |-> 120000]
          [] OTHER ->
               [allowedStatements |-> <<KW_ALL>>,
                maxRows |-> 50000, queryTimeoutMs |-> 300000]]

\* a fallback to the widest policy
getRolePermissions_FallbackAdmin(role) ==
    IF role \in DOMAIN ROLE_PERMISSIONS
    THEN ROLE_PERMISSIONS[role]
    ELSE ROLE_PERMISSIONS["ADMIN"]

getRolePermissions(role) ==
    IF role \in DOMAIN ROLE_PERMISSIONS
    THEN ROLE_PERMISSIONS[role]
    ELSE ROLE_PERMISSIONS["VIEWER"]

\* the list with EXEC tried before EXECUTE
ddlKeywords_ExecFirst ==
    <<KW_CREATE, KW_ALTER, KW_DROP, KW_TRUNCATE,
      KW_GRANT, KW_REVOKE, KW_EXEC, KW_EXECUTE>>

ddlKeywords ==
    <<KW_CREATE, KW_ALTER, KW_DROP, KW_TRUNCATE,
      KW_GRANT, KW_REVOKE, KW_EXECUTE, KW_EXEC>>

\* `for (const k of list) if (text.startsWith(k)) return ...`: index of the
\* first element of list that prefixes text, 0 when the loop falls through
FirstPrefix(list, text) ==
    LET hits == {i \in 1..Len(list) : StartsWith(text, list[i])}
    IN  IF hits = {} THEN 0
        ELSE CHOOSE i \in hits : \A j \in hits : i <= j

KeywordReason(role, keyword) ==
    <<"R", "o", "l", "e", " ">> \o RoleText(role)
    \o <<" ", "i", "s", " ", "n", "o", "t", " ", "p", "e", "r", "m", "i", "t",
         "t", "e", "d", " ", "t", "o", " ", "e", "x", "e", "c", "u", "t", "e",
         " ">>
    \o keyword \o <<" ", "s", "t", "a", "t", "e", "m", "e", "n", "t", "s">>

GenericReason(role) ==
    <<"R", "o", "l", "e", " ">> \o RoleText(role)
    \o <<" ", "i", "s", " ", "n", "o", "t", " ", "p", "e", "r", "m", "i", "t",
         "t", "e", "d", " ", "t", "o", " ", "e", "x", "e", "c", "u", "t", "e",
         " ">>
    \o <<"t", "h", "i", "s", " ", "t", "y", "p", "e", " ", "o", "f", " ",
         "q", "u", "e", "r", "y">>

\* no call made yet
NoAuth == << >>

canExecuteStatement(role, sql) ==
    LET permissions   == getRolePermissions(role)
        allowed       == permissions.allowedStatements
        normalizedSql == ToUpperCase(Trim(sql))
        hit           == FirstPrefix(allowed, normalizedSql)
        ddl           == FirstPrefix(ddlKeywords, normalizedSql)
    IN  IF \E i \in 1..Len(allowed) : allowed[i] = KW_ALL
        THEN [allowed |-> TRUE]
        ELSE IF hit # 0
        THEN [allowed |-> TRUE, statement |-> allowed[hit]]
        ELSE IF ddl # 0
        THEN [allowed |-> FALSE,
              reason |-> KeywordReason(role, ddlKeywords[ddl])]
        ELSE [allowed |-> FALSE, reason |-> GenericReason(role)]


-----------------------------------------------------------------------------
(* Bounds and the environment of the broker *)

MaxExec == 2      \* executeQuery invocations
MaxCancel == 1    \* cancelQuery invocations in progress at the same time
MaxOver == 1      \* rows the driver may return beyond a role's maxRows
MaxIssued == 2    \* updates per id that `issued` tells apart; it stops there
MaxFaults == 1    \* statements the metadata store rejects in one run

\* one more update issued
Count(n) == IF n < MaxIssued THEN n + 1 ELSE n

\* one slot per executeQuery invocation; slot e mints history id e (uuidv4)
Execs == 1..MaxExec
CancelSlots == 1..MaxCancel

\* req.user of the authenticated caller: { id, role }
Users == {"u1", "u2"}
UserRole(u) == IF u = "u1" THEN "VIEWER" ELSE "ANALYST"

\* who submits through slot e: the first submission is u1's, the later ones
\* are anybody's (same owner and different owners both occur)
Submitters(e) == IF e = 1 THEN {"u1"} ELSE Users

\* rows of the connections table: c1 is active, c2 is soft-deleted
Connections == {"c1", "c2"}
Descriptor(c) ==
    IF c = "c1"
    THEN [isActive |-> TRUE,  server |-> "db1", database |-> "sales"]
    ELSE [isActive |-> FALSE, server |-> "db2", database |-> "hr"]

\* statements submitted to the broker
SqlSelect == <<"s", "e", "l", "e", "c", "t", " ", "*", " ", "f", "r", "o",
               "m", " ", "T">>
SqlDrop   == <<"D", "R", "O", "P", " ", "T", "A", "B", "L", "E", " ", "T">>
Submitted == {SqlSelect, SqlDrop}

\* messages of thrown errors
CANCEL == <<"c", "a", "n", "c", "e", "l">>
CancelledByUser ==
    <<"Q", "u", "e", "r", "y", " ", "c", "a", "n", "c", "e", "l", "l", "e",
      "d", " ", "b", "y", " ", "u", "s", "e", "r">>
ConnectionInactive ==
    <<"C", "o", "n", "n", "e", "c", "t", "i", "o", "n", " ", "n", "o", "t",
      " ", "f", "o", "u", "n", "d", " ", "o", "r", " ", "i", "n", "a", "c",
      "t", "i", "v", "e">>
\* mssql: a request stopped by cancel() rejects with one of these
DriverCanceled  == <<"C", "a", "n", "c", "e", "l", "e", "d", ".">>
DriverCancelled ==
    <<"O", "p", "e", "r", "a", "t", "i", "o", "n", " ", "c", "a", "n", "c",
      "e", "l", "l", "e", "d">>
\* mssql: request.setTimeout(queryTimeoutMs) elapsed
DriverTimeout ==
    <<"T", "i", "m", "e", "o", "u", "t", ":", " ", "R", "e", "q", "u", "e",
      "s", "t", " ", "f", "a", "i", "l", "e", "d", " ", "t", "o", " ", "c",
      "o", "m", "p", "l", "e", "t", "e">>
\* SQL Server: a statement error that quotes an identifier of the statement
DriverInvalidColumn ==
    <<"I", "n", "v", "a", "l", "i", "d", " ", "c", "o", "l", "u", "m", "n",
      " ", "n", "a", "m", "e", " ", "'", "c", "a", "n", "c", "e", "l", "_",
      "f", "l", "a", "g", "'", ".">>
DriverConnectFailed ==
    <<"F", "a", "i", "l", "e", "d", " ", "t", "o", " ", "c", "o", "n", "n",
      "e", "c", "t">>
\* libsql: the metadata store rejects a statement
StoreError ==
    <<"S", "Q", "L", "I", "T", "E", "_", "B", "U", "S", "Y", ":", " ", "d",
      "a", "t", "a", "b", "a", "s", "e", " ", "i", "s", " ", "l", "o", "c",
      "k", "e", "d">>

Terminal == {"success", "error", "cancelled"}

-----------------------------------------------------------------------------
(* config/database.js: the SQL pool registry *)

\* `${connectionConfig.server}_${connectionConfig.database}`; a missing
\* property interpolates as "undefined"
PoolKey(connectionConfig) ==
    connectionConfig.server \o "_" \o
        (IF "database" \in DOMAIN connectionConfig
         THEN connectionConfig.database ELSE "undefined")

getSqlPool(connectionConfig) ==
    IF PoolKey(connectionConfig) \in DOMAIN sqlPools
    THEN sqlPools[PoolKey(connectionConfig)]
    ELSE NoId

\* sqlPools.set(poolKey, pool)
setSqlPool(connectionConfig, pool) ==
    [k \in DOMAIN sqlPools \cup {PoolKey(connectionConfig)} |->
        IF k = PoolKey(connectionConfig) THEN pool ELSE sqlPools[k]]

\* a closeAllSqlPools that closes the pools and keeps the registry
closeAllSqlPools_NoClear ==
    /\ pools' = [p \in DOMAIN pools |->
                    IF \E key \in DOMAIN sqlPools : sqlPools[key] = p
                    THEN [connected |-> FALSE, closed |-> TRUE]
                    ELSE pools[p]]
    /\ UNCHANGED <<pc, call, local, result, history, runningQueries, requests,
                   sqlPools, cpc, ccall, cwrite, cresult, issued, faults,
                   policyVars,
                   userQueries, page>>

\* closeAllSqlPools(): close() on every registered pool, then clear()
closeAllSqlPools ==
    /\ pools' = [p \in DOMAIN pools |->
                    IF \E key \in DOMAIN sqlPools : sqlPools[key] = p
                    THEN [connected |-> FALSE, closed |-> TRUE]
                    ELSE pools[p]]
    /\ sqlPools' = << >>
    /\ UNCHANGED <<pc, call, local, result, history, runningQueries, requests,
                   cpc, ccall, cwrite, cresult, issued, faults, policyVars,
                   userQueries, page>>

-----------------------------------------------------------------------------
(* models/QueryHistory.js *)

allowedFields ==
    {"status", "rowCount", "executionTimeMs", "errorMessage", "cancelledAt"}

\* QueryHistoryModel.create: the inserted row; a column that is NULL is a
\* field the record does not have
NewRow(userId, connectionId, sql) ==
    [userId |-> userId, connectionId |-> connectionId, sql |-> sql,
     status |-> "running"]

\* UPDATE query_history SET <the keys of updates> WHERE id = ?
ApplyUpdate(row, updates) ==
    [f \in DOMAIN row \cup (DOMAIN updates \cap allowedFields) |->
        IF f \in DOMAIN updates \cap allowedFields
        THEN updates[f] ELSE row[f]]

\* DELETE FROM query_history WHERE created_at < ?: the rows that stay.
\* created_at and the cutoff are both Date.toISOString() texts, whose order
\* as text is their order in time; times are counted in days here.
DeleteWhereCreatedBefore(table, cutoffDate) ==
    [id \in {i \in DOMAIN table : ~(table[i].createdAt < cutoffDate)} |->
        table[id]]

\* QueryHistoryModel.deleteOlderThan(days) run on day `today`
deleteOlderThan(table, today, days) ==
    LET cutoffDate == today - days
    IN  DeleteWhereCreatedBefore(table, cutoffDate)

-----------------------------------------------------------------------------
(* services/SqlService.js *)

NoLocal ==
    [queryHistoryId |-> NoId, pool |-> NoId, recordset |-> << >>,
     update |-> << >>, write |-> "none", error |-> NoText,
     caught |-> NoText]

Returned(queryId, data, totalRows, returnedRows, truncated, maxRows) ==
    [kind |-> "return", queryId |-> queryId, data |-> data,
     totalRows |-> totalRows, returnedRows |-> returnedRows,
     truncated |-> truncated, maxRows |-> maxRows]

NoResult == [kind |-> "pending"]

Thrown(message) ==
    [kind |-> "throw", message |-> message]

\* result.recordset of n rows, in driver order: the rows are named by their
\* positions first..last (empty when last < first)
Recordset(n) == [first |-> 1, last |-> n]
Length(rows) == IF rows.last < rows.first THEN 0 ELSE rows.last - rows.first + 1

\* a slice that keeps the element at index `end` as well
Slice_Inclusive(rows, begin, end) ==
    [first |-> rows.first + begin,
     last  |-> rows.first + Min(end + 1, Length(rows)) - 1]

\* Array.prototype.slice(begin, end), 0 <= begin, 0 <= end
Slice(rows, begin, end) ==
    [first |-> rows.first + begin,
     last  |-> rows.first + Min(end, Length(rows)) - 1]

\* what the driver may return for a statement run under role's limits
RowCounts(role) ==
    (getRolePermissions(role).maxRows - MaxOver) ..
        (getRolePermissions(role).maxRows + MaxOver)

\* catch (error), lines 82-111: which update it issues and what it throws
IsCancel(message) == Includes(message, CANCEL)

\* an error update that leaves the error text out
CatchUpdate_NoText(message) ==
    IF IsCancel(message)
    THEN [status |-> "cancelled", executionTimeMs |-> "elapsed",
          errorMessage |-> CancelledByUser]
    ELSE [status |-> "error", executionTimeMs |-> "elapsed"]

CatchUpdate(message) ==
    IF IsCancel(message)
    THEN [status |-> "cancelled", executionTimeMs |-> "elapsed",
          errorMessage |-> CancelledByUser]
    ELSE [status |-> "error", executionTimeMs |-> "elapsed",
          errorMessage |-> message]

CatchThrown(message) ==
    IF IsCancel(message) THEN CancelledByUser ELSE message

\* a catch block that rethrows without writing the history record
Catch_NoUpdate(e, message) ==
    /\ pc' = [pc EXCEPT ![e] = "done"]
    /\ result' = [result EXCEPT ![e] = Thrown(CatchThrown(message))]
    /\ UNCHANGED <<local, issued>>

\* control enters the catch block of invocation e with error `message`
Catch(e, message) ==
    IF local[e].queryHistoryId = NoId
    THEN \* no update; runningQueries.delete(null) removes nothing
         /\ pc' = [pc EXCEPT ![e] = "done"]
         /\ result' = [result EXCEPT ![e] = Thrown(CatchThrown(message))]
         /\ UNCHANGED <<local, issued>>
    ELSE /\ pc' = [pc EXCEPT ![e] = "catch"]
         /\ local' = [local EXCEPT ![e].update = CatchUpdate(message),
                                   ![e].write = "pending",
                                   ![e].error = CatchThrown(message),
                                   ![e].caught = message]
         /\ issued' = [issued EXCEPT ![local[e].queryHistoryId] = Count(@)]
         /\ UNCHANGED result

\* lines 42-50 of invocation e holding history id `id`:
\* request = pool.request(); runningQueries.set(...); request.query starts
StartQuery(e, id, pool) ==
    /\ pc' = [pc EXCEPT ![e] = "query"]
    /\ local' = [local EXCEPT ![e].queryHistoryId = id, ![e].pool = pool]
    /\ requests' = [requests EXCEPT ![e] = "created"]
    /\ runningQueries' =
           MapSet(runningQueries, id,
                  [request |-> e, userId |-> call[e].userId,
                   connectionId |-> call[e].connectionId])

\* an executeQuery that writes the history record before the role check
Submit_RecordFirst(e, userId, connectionId, sql) ==
    /\ pc[e] = "idle"
    /\ \A d \in Execs : d < e => pc[d] # "idle"
    /\ userId \in Submitters(e)
    /\ call' = [call EXCEPT ![e] =
                   [userId |-> userId, userRole |-> UserRole(userId),
                    connectionId |-> connectionId, sql |-> sql]]
    /\ history' = MapSet(history, e, NewRow(userId, connectionId, sql))
    /\ LET permissionCheck == canExecuteStatement(UserRole(userId), sql)
       IN  IF ~permissionCheck.allowed
           THEN /\ pc' = [pc EXCEPT ![e] = "done"]
                /\ result' = [result EXCEPT ![e] = Thrown(permissionCheck.reason)]
                /\ UNCHANGED <<local, issued>>
           ELSE /\ pc' = [pc EXCEPT ![e] = "create"]
                /\ UNCHANGED <<local, result, issued>>
    /\ UNCHANGED <<runningQueries, requests, sqlPools, pools,
                   cpc, ccall, cwrite, cresult, faults, policyVars,
                   userQueries, page>>

\* executeQuery is called: lines 16-31, up to `await QueryHistoryModel.create`
Submit(e, userId, connectionId, sql) ==
    /\ pc[e] = "idle"
    /\ \A d \in Execs : d < e => pc[d] # "idle"
    /\ userId \in Submitters(e)
    /\ call' = [call EXCEPT ![e] =
                   [userId |-> userId, userRole |-> UserRole(userId),
                    connectionId |-> connectionId, sql |-> sql]]
    /\ LET permissionCheck == canExecuteStatement(UserRole(userId), sql)
       IN  IF ~permissionCheck.allowed
           THEN Catch(e, permissionCheck.reason)
           ELSE /\ pc' = [pc EXCEPT ![e] = "create"]
                /\ UNCHANGED <<local, result, issued>>
    /\ UNCHANGED <<history, runningQueries, requests, sqlPools, pools,
                   cpc, ccall, cwrite, cresult, faults, policyVars,
                   userQueries, page>>

\* the insert of create resolves: lines 37-40 and _getOrCreatePool 156-163
CreateResolves(e) ==
    /\ pc[e] = "create"
    /\ history' = MapSet(history, e,
                      NewRow(call[e].userId, call[e].connectionId, call[e].sql))
    /\ LET existingPool == getSqlPool([server |-> call[e].connectionId])
       IN  IF existingPool # NoId /\ pools[existingPool].connected
           THEN StartQuery(e, e, existingPool)
           ELSE /\ pc' = [pc EXCEPT ![e] = "config"]
                /\ local' = [local EXCEPT ![e].queryHistoryId = e]
                /\ UNCHANGED <<requests, runningQueries>>
    /\ UNCHANGED <<call, result, sqlPools, pools, cpc, ccall, cwrite, cresult,
                   issued, faults, policyVars,
                   userQueries, page>>

\* the insert of create is rejected: create rethrows, no id was assigned
CreateThrows(e) ==
    /\ pc[e] = "create"
    /\ faults < MaxFaults
    /\ faults' = faults + 1
    /\ Catch(e, StoreError)
    /\ UNCHANGED <<call, history, runningQueries, requests, sqlPools, pools,
                   cpc, ccall, cwrite, cresult, policyVars,
                   userQueries, page>>

\* ConnectionModel.getDecryptedConfig resolves: lines 163-186, a new
\* ConnectionPool is constructed and pool.connect() starts
ConfigResolves(e) ==
    /\ pc[e] = "config"
    /\ Descriptor(call[e].connectionId).isActive
    /\ pc' = [pc EXCEPT ![e] = "connect"]
    /\ local' = [local EXCEPT ![e].pool = e]
    /\ pools' = [k \in DOMAIN pools \cup {e} |->
                    IF k = e THEN [connected |-> FALSE, closed |-> FALSE]
                    ELSE pools[k]]
    /\ UNCHANGED <<call, result, history, runningQueries, requests, sqlPools,
                   cpc, ccall, cwrite, cresult, issued, faults, policyVars,
                   userQueries, page>>

\* ConnectionModel.getDecryptedConfig throws 'Connection not found or inactive'
ConfigThrows(e) ==
    /\ pc[e] = "config"
    /\ ~Descriptor(call[e].connectionId).isActive
    /\ Catch(e, ConnectionInactive)
    /\ UNCHANGED <<call, history, runningQueries, requests, sqlPools, pools,
                   cpc, ccall, cwrite, cresult, faults, policyVars,
                   userQueries, page>>

\* pool.connect() resolves: lines 188-192, then lines 42-50 of executeQuery
ConnectResolves(e) ==
    /\ pc[e] = "connect"
    /\ pools' = [pools EXCEPT ![local[e].pool].connected = TRUE]
    /\ sqlPools' = setSqlPool(Descriptor(call[e].connectionId), local[e].pool)
    /\ StartQuery(e, local[e].queryHistoryId, local[e].pool)
    /\ UNCHANGED <<call, result, history, cpc, ccall, cwrite, cresult, issued,
                   faults, policyVars,
                   userQueries, page>>

\* an acquisition that registers the pool before its connect has succeeded
ConnectThrows_Registers(e) ==
    /\ pc[e] = "connect"
    /\ sqlPools' = setSqlPool(Descriptor(call[e].connectionId), local[e].pool)
    /\ Catch(e, DriverConnectFailed)
    /\ UNCHANGED <<call, history, runningQueries, requests, pools,
                   cpc, ccall, cwrite, cresult, faults, policyVars,
                   userQueries, page>>

\* pool.connect() rejects: nothing is registered
ConnectThrows(e) ==
    /\ pc[e] = "connect"
    /\ Catch(e, DriverConnectFailed)
    /\ UNCHANGED <<call, history, runningQueries, requests, sqlPools, pools,
                   cpc, ccall, cwrite, cresult, faults, policyVars,
                   userQueries, page>>

\* an update that records the number of rows handed to the caller
QueryResolves_CappedCount(e, totalRows) ==
    /\ pc[e] = "query"
    /\ totalRows \in RowCounts(call[e].userRole)
    /\ pc' = [pc EXCEPT ![e] = "update"]
    /\ local' = [local EXCEPT
           ![e].recordset = Recordset(totalRows),
           ![e].update =
               [status |-> "success",
                rowCount |->
                    Min(totalRows, getRolePermissions(call[e].userRole).maxRows),
                executionTimeMs |-> "elapsed"],
           ![e].write = "pending"]
    /\ issued' = [issued EXCEPT ![local[e].queryHistoryId] = Count(@)]
    /\ UNCHANGED <<call, result, history, runningQueries, requests, sqlPools,
                   pools, cpc, ccall, cwrite, cresult, faults, policyVars,
                   userQueries, page>>

\* request.query resolves with totalRows rows: lines 53-60, up to
\* `await QueryHistoryModel.update`
QueryResolves(e, totalRows) ==
    /\ pc[e] = "query"
    /\ totalRows \in RowCounts(call[e].userRole)
    /\ pc' = [pc EXCEPT ![e] = "update"]
    /\ local' = [local EXCEPT
           ![e].recordset = Recordset(totalRows),
           ![e].update = [status |-> "success", rowCount |-> totalRows,
                          executionTimeMs |-> "elapsed"],
           ![e].write = "pending"]
    /\ issued' = [issued EXCEPT ![local[e].queryHistoryId] = Count(@)]
    /\ UNCHANGED <<call, result, history, runningQueries, requests, sqlPools,
                   pools, cpc, ccall, cwrite, cresult, faults, policyVars,
                   userQueries, page>>

\* what request.query may reject with: a statement error or the timeout at
\* any time, a cancellation error once cancel() was called on the request
DriverCancellations == {DriverCanceled, DriverCancelled}

DriverErrors(e) ==
    {DriverTimeout, DriverInvalidColumn}
    \cup (IF requests[e] = "cancelled" THEN DriverCancellations ELSE {})

QueryThrows(e, message) ==
    /\ pc[e] = "query"
    /\ message \in DriverErrors(e)
    /\ Catch(e, message)
    /\ UNCHANGED <<call, history, runningQueries, requests, sqlPools, pools,
                   cpc, ccall, cwrite, cresult, faults, policyVars,
                   userQueries, page>>

\* the metadata store executes the UPDATE that executeQuery has in flight
StoreApplies(e) ==
    /\ pc[e] \in {"update", "catch"}
    /\ local[e].write = "pending"
    /\ history' = [history EXCEPT ![local[e].queryHistoryId] =
                      ApplyUpdate(@, local[e].update)]
    /\ local' = [local EXCEPT ![e].write = "applied"]
    /\ UNCHANGED <<pc, call, result, runningQueries, requests, sqlPools, pools,
                   cpc, ccall, cwrite, cresult, issued, faults, policyVars,
                   userQueries, page>>

\* QueryHistoryModel.update of line 60 throws (the store rejects the
\* UPDATE): control enters the catch block
UpdateThrows(e) ==
    /\ faults < MaxFaults
    /\ faults' = faults + 1
    /\ pc[e] = "update"
    /\ local[e].write = "pending"
    /\ Catch(e, StoreError)
    /\ UNCHANGED <<call, history, runningQueries, requests, sqlPools, pools,
                   cpc, ccall, cwrite, cresult, policyVars,
                   userQueries, page>>

\* the update of line 60 resolves: lines 67-80
Return(e) ==
    /\ pc[e] = "update"
    /\ local[e].write = "applied"
    /\ runningQueries' = MapDelete(runningQueries, local[e].queryHistoryId)
    /\ LET permissions == getRolePermissions(call[e].userRole)
           recordset   == local[e].recordset
           totalRows   == Length(recordset)
           limitedRows == Slice(recordset, 0, permissions.maxRows)
       IN  result' = [result EXCEPT ![e] =
               Returned(local[e].queryHistoryId, limitedRows, totalRows,
                        Length(limitedRows), totalRows > permissions.maxRows,
                        permissions.maxRows)]
    /\ pc' = [pc EXCEPT ![e] = "done"]
    /\ local' = [local EXCEPT ![e].update = << >>, ![e].write = "none"]
    /\ UNCHANGED <<call, history, requests, sqlPools, pools, cpc, ccall,
                   cwrite, cresult, issued, faults, policyVars,
                   userQueries, page>>

\* the update inside the catch block resolves: lines 94-95 or 107-111
Throw(e) ==
    /\ pc[e] = "catch"
    /\ local[e].write = "applied"
    /\ runningQueries' = MapDelete(runningQueries, local[e].queryHistoryId)
    /\ result' = [result EXCEPT ![e] = Thrown(local[e].error)]
    /\ pc' = [pc EXCEPT ![e] = "done"]
    /\ local' = [local EXCEPT ![e].update = << >>, ![e].write = "none"]
    /\ UNCHANGED <<call, history, requests, sqlPools, pools, cpc, ccall,
                   cwrite, cresult, issued, faults, policyVars,
                   userQueries, page>>

\* the update inside the catch block throws: executeQuery rejects with the
\* store's error and the statements after the update do not run
CatchUpdateThrows(e) ==
    /\ faults < MaxFaults
    /\ faults' = faults + 1
    /\ pc[e] = "catch"
    /\ local[e].write = "pending"
    /\ result' = [result EXCEPT ![e] = Thrown(StoreError)]
    /\ pc' = [pc EXCEPT ![e] = "done"]
    /\ local' = [local EXCEPT ![e].update = << >>, ![e].write = "none"]
    /\ UNCHANGED <<call, history, runningQueries, requests, sqlPools, pools,
                   cpc, ccall, cwrite, cresult, issued, policyVars,
                   userQueries, page>>

-----------------------------------------------------------------------------
(* SqlService.cancelQuery *)

NoCancel == [queryId |-> NoId, userId |-> Null]

\* a cancelQuery without the ownership check of lines 126-128
CancelQuery_NoOwnerCheck(k, queryId, userId) ==
    /\ cpc[k] = "idle"
    /\ \A d \in CancelSlots : d < k => cpc[d] # "idle"
    /\ IF queryId \notin DOMAIN runningQueries
       THEN /\ cresult' = [cresult EXCEPT ![k] = "not found"]
            /\ UNCHANGED <<cpc, ccall, cwrite, requests, issued>>
       ELSE /\ requests' = [requests EXCEPT
                               ![runningQueries[queryId].request] = "cancelled"]
            /\ cpc' = [cpc EXCEPT ![k] = "update"]
            /\ ccall' = [ccall EXCEPT ![k] =
                            [queryId |-> queryId, userId |-> userId]]
            /\ cwrite' = [cwrite EXCEPT ![k] = "pending"]
            /\ issued' = [issued EXCEPT ![queryId] = Count(@)]
            /\ UNCHANGED cresult
    /\ UNCHANGED <<pc, call, local, result, history, runningQueries, sqlPools,
                   pools, faults, policyVars,
                   userQueries, page>>

\* a cancelQuery without the lookup of lines 119-123: an id with no tracker
\* entry gets its history record updated like a registered one
CancelQuery_NoLookup(k, queryId, userId) ==
    /\ cpc[k] = "idle"
    /\ \A d \in CancelSlots : d < k => cpc[d] # "idle"
    /\ IF queryId \in DOMAIN runningQueries
          /\ runningQueries[queryId].userId # userId
       THEN /\ cresult' = [cresult EXCEPT ![k] = "unauthorized"]
            /\ UNCHANGED <<cpc, ccall, cwrite, requests, issued>>
       ELSE /\ requests' =
                   IF queryId \in DOMAIN runningQueries
                   THEN [requests EXCEPT
                            ![runningQueries[queryId].request] = "cancelled"]
                   ELSE requests
            /\ cpc' = [cpc EXCEPT ![k] = "update"]
            /\ ccall' = [ccall EXCEPT ![k] =
                            [queryId |-> queryId, userId |-> userId]]
            /\ cwrite' = [cwrite EXCEPT ![k] = "pending"]
            /\ issued' = [issued EXCEPT ![queryId] = Count(@)]
            /\ UNCHANGED cresult
    /\ UNCHANGED <<pc, call, local, result, history, runningQueries, sqlPools,
                   pools, faults, policyVars,
                   userQueries, page>>

\* cancelQuery is called: lines 119-135, up to `await QueryHistoryModel.update`
CancelQuery(k, queryId, userId) ==
    /\ cpc[k] = "idle"
    /\ \A d \in CancelSlots : d < k => cpc[d] # "idle"
    /\ IF queryId \notin DOMAIN runningQueries
       THEN /\ cresult' = [cresult EXCEPT ![k] =
                              "not found"]
            /\ UNCHANGED <<cpc, ccall, cwrite, requests, issued>>
       ELSE IF runningQueries[queryId].userId # userId
       THEN /\ cresult' = [cresult EXCEPT ![k] =
                              "unauthorized"]
            /\ UNCHANGED <<cpc, ccall, cwrite, requests, issued>>
       ELSE /\ requests' = [requests EXCEPT
                               ![runningQueries[queryId].request] = "cancelled"]
            /\ cpc' = [cpc EXCEPT ![k] = "update"]
            /\ ccall' = [ccall EXCEPT ![k] =
                            [queryId |-> queryId, userId |-> userId]]
            /\ cwrite' = [cwrite EXCEPT ![k] = "pending"]
            /\ issued' = [issued EXCEPT ![queryId] = Count(@)]
            /\ UNCHANGED cresult
    /\ UNCHANGED <<pc, call, local, result, history, runningQueries, sqlPools,
                   pools, faults, policyVars,
                   userQueries, page>>

\* the metadata store executes the UPDATE that cancelQuery has in flight
CancelStoreApplies(k) ==
    /\ cpc[k] = "update"
    /\ cwrite[k] = "pending"
    /\ history' = [history EXCEPT ![ccall[k].queryId] =
                      ApplyUpdate(@, [status |-> "cancelled",
                                      cancelledAt |-> "now"])]
    /\ cwrite' = [cwrite EXCEPT ![k] = "applied"]
    /\ UNCHANGED <<pc, call, local, result, runningQueries, requests, sqlPools,
                   pools, cpc, ccall, cresult, issued, faults, policyVars,
                   userQueries, page>>

\* the update resolves: lines 140-144
CancelReturn(k) ==
    /\ cpc[k] = "update"
    /\ cwrite[k] = "applied"
    /\ runningQueries' = MapDelete(runningQueries, ccall[k].queryId)
    /\ cresult' = [cresult EXCEPT ![k] = "cancelled"]
    /\ cpc' = [cpc EXCEPT ![k] = "idle"]
    /\ ccall' = [ccall EXCEPT ![k] = NoCancel]
    /\ cwrite' = [cwrite EXCEPT ![k] = "none"]
    /\ UNCHANGED <<pc, call, local, result, history, requests, sqlPools, pools,
                   issued, faults, policyVars,
                   userQueries, page>>

\* the update throws: lines 145-148 log and rethrow, the entry stays
CancelUpdateThrows(k) ==
    /\ faults < MaxFaults
    /\ faults' = faults + 1
    /\ cpc[k] = "update"
    /\ cwrite[k] = "pending"
    /\ cresult' = [cresult EXCEPT ![k] = "error"]
    /\ cpc' = [cpc EXCEPT ![k] = "idle"]
    /\ ccall' = [ccall EXCEPT ![k] = NoCancel]
    /\ cwrite' = [cwrite EXCEPT ![k] = "none"]
    /\ UNCHANGED <<pc, call, local, result, history, runningQueries, requests,
                   sqlPools, pools, issued, policyVars,
                   userQueries, page>>

-----------------------------------------------------------------------------
(* SqlService.getRunningQueries *)

\* a listing that leaves out the ownership test of line 232
getRunningQueries_AllUsers(userId) ==
    {[queryId |-> queryId,
      connectionId |-> runningQueries[queryId].connectionId] :
        queryId \in DOMAIN runningQueries}

\* the entries pushed by the loop of lines 231-238 (the array is in the
\* Map's insertion order; the order is not kept here)
getRunningQueries(userId) ==
    {[queryId |-> queryId,
      connectionId |-> runningQueries[queryId].connectionId] :
        queryId \in {q \in DOMAIN runningQueries :
                        runningQueries[q].userId = userId}}

\* GET /api/query/running of user userId
GetRunningQueries(userId) ==
    /\ userQueries' =
           [userId |-> userId, queries |-> getRunningQueries(userId)]
    /\ UNCHANGED <<brokerVars, policyVars, page>>

-----------------------------------------------------------------------------
(* SqlService.closeAllPools *)

\* the shutdown handler: imports config/database.js and calls closeAllSqlPools
closeAllPools == closeAllSqlPools

-----------------------------------------------------------------------------
(* The broker *)

NoCall ==
    [userId |-> Null, userRole |-> Null, connectionId |-> Null, sql |-> NoText]

\* no call has been made yet
NoListing == << >>

\* the query page as its script block initialises it (lines 9-17), with the
\* HTTP requests it has sent so far
NewPage ==
    [mount |-> "loading", connections |-> << >>, selectedConnection |-> "",
     sqlQuery |-> DefaultQuery, queryResults |-> Null, queryError |-> Null,
     isExecuting |-> FALSE, currentQueryId |-> NoId, sent |-> << >>]

\* no handler is running
Idle ==
    /\ pc = [e \in Execs |-> "idle"]
    /\ call = [e \in Execs |-> NoCall]
    /\ local = [e \in Execs |-> NoLocal]
    /\ result = [e \in Execs |-> NoResult]
    /\ cpc = [k \in CancelSlots |-> "idle"]
    /\ ccall = [k \in CancelSlots |-> NoCancel]
    /\ cwrite = [k \in CancelSlots |-> "none"]
    /\ cresult = [k \in CancelSlots |-> "none"]
    /\ userQueries = NoListing
    /\ page = NewPage

BrokerInit ==
    /\ Idle
    /\ history = << >>
    /\ runningQueries = << >>
    /\ requests = [e \in Execs |-> Null]
    /\ sqlPools = << >>
    /\ pools = << >>
    /\ issued = [e \in Execs |-> 0]
    /\ faults = 0

Init ==
    /\ BrokerInit
    /\ authRole = Null
    /\ authSql = NoText
    /\ authResult = NoAuth

ExecStep(e) ==
    \/ CreateResolves(e)
    \/ CreateThrows(e)
    \/ ConfigResolves(e)
    \/ ConfigThrows(e)
    \/ ConnectResolves(e)
    \/ ConnectThrows(e)
    \/ \E n \in RowCounts(call[e].userRole) : QueryResolves(e, n)
    \/ \E m \in DriverErrors(e) : QueryThrows(e, m)
    \/ StoreApplies(e)
    \/ UpdateThrows(e)
    \/ Return(e)
    \/ Throw(e)
    \/ CatchUpdateThrows(e)

CancelStep(k) ==
    \/ CancelStoreApplies(k)
    \/ CancelReturn(k)
    \/ CancelUpdateThrows(k)

Next ==
    \/ \E e \in Execs, u \in Users, c \in Connections, s \in Submitted :
           Submit(e, u, c, s)
    \/ \E e \in Execs : ExecStep(e)
    \/ \E k \in CancelSlots, q \in Execs, u \in Users : CancelQuery(k, q, u)
    \/ \E k \in CancelSlots : CancelStep(k)

Spec == Init /\ [][Next]_vars

\* The service as a library: executions, listings and the shutdown call in
\* any order.
\* (In server.js the process exits right after closeAllPools; here the calls
\* that may follow it are kept.)
ServiceNext ==
    \/ \E e \in Execs, u \in Users, c \in Connections, s \in Submitted :
           Submit(e, u, c, s)
    \/ \E e \in Execs : ExecStep(e)
    \/ closeAllPools
    \/ \E u \in Users : GetRunningQueries(u)

ServiceSpec == Init /\ [][ServiceNext]_vars

-----------------------------------------------------------------------------
(* The role policy on its own: canExecuteStatement applied to one role and
   one statement *)

\* statements: optional leading white space, a first word, an optional rest
Leads == {NoText, <<" ">>, <<"\n", " ">>}
Words ==
    {<<"S", "E", "L", "E", "C", "T">>,
     <<"S", "e", "l", "e", "c", "t">>,
     <<"i", "n", "s", "e", "r", "t">>,
     <<"U", "p", "d", "a", "t", "e">>,
     <<"d", "e", "l", "e", "t", "e">>,
     <<"M", "E", "R", "G", "E">>,
     <<"c", "r", "e", "a", "t", "e">>,
     <<"A", "L", "T", "E", "R">>,
     <<"d", "r", "o", "p">>,
     <<"T", "R", "U", "N", "C", "A", "T", "E">>,
     <<"G", "r", "a", "n", "t">>,
     <<"r", "e", "v", "o", "k", "e">>,
     <<"E", "X", "E", "C", "U", "T", "E">>,
     <<"e", "x", "e", "c", "u", "t", "e">>,
     <<"E", "x", "e", "c">>,
     <<"E", "X", "E", "C">>,
     <<"u", "p", "d", "a", "t", "e", "t", "e", "x", "t">>,
     <<"W", "i", "t", "h">>,
     <<"b", "a", "c", "k", "u", "p">>}
Rests == {NoText, <<" ", "T">>}
Statements == {l \o w \o r : l \in Leads, w \in Words, r \in Rests}

PolicyInit ==
    /\ BrokerInit
    /\ authRole \in RoleNames
    /\ authSql \in Statements
    /\ authResult = NoAuth

Authorize ==
    /\ authResult = NoAuth
    /\ authResult' = canExecuteStatement(authRole, authSql)
    /\ UNCHANGED <<authRole, authSql, brokerVars, userQueries, page>>

PolicyNext == Authorize

PolicySpec == PolicyInit /\ [][PolicyNext]_vars

-----------------------------------------------------------------------------
(* The history ledger on its own: the cleanup job run over a table *)

MaxDay == 3       \* days the ledger spans: records are created on days 0..MaxDay

Days == 0..MaxDay

\* a row of query_history as the cleanup job finds it
LedgerRow(status, createdAt) ==
    [userId |-> "u1", connectionId |-> "c1", sql |-> SqlSelect,
     status |-> status, createdAt |-> createdAt]

LedgerRows ==
    {LedgerRow(status, createdAt) :
        status \in {"running"} \cup Terminal, createdAt \in Days}

Tables == UNION {[ids -> LedgerRows] : ids \in SUBSET Execs}

LedgerInit ==
    /\ Idle
    /\ history \in Tables
    /\ runningQueries = << >>
    /\ requests = [e \in Execs |-> Null]
    /\ sqlPools = << >>
    /\ pools = << >>
    /\ issued = [e \in Execs |-> 0]
    /\ faults = 0
    /\ authRole = Null
    /\ authSql = NoText
    /\ authResult = NoAuth

\* the cleanup job: deleteOlderThan(days) run on day today, no record being
\* younger than today
DeleteOlderThan(today, days) ==
    /\ \A id \in DOMAIN history : history[id].createdAt <= today
    /\ history' = deleteOlderThan(history, today, days)
    /\ UNCHANGED <<pc, call, local, result, runningQueries, requests,
                   sqlPools, pools, cpc, ccall, cwrite, cresult, issued, faults,
                   policyVars, userQueries, page>>

LedgerNext == \E today \in Days, days \in Days : DeleteOlderThan(today, days)

LedgerSpec == LedgerInit /\ [][LedgerNext]_vars

-----------------------------------------------------------------------------
(* frontend/src/routes/query/+page.svelte: the query page on its own; the
   backend is what answers its requests *)

MaxPageRequests == 2   \* HTTP requests the page sends in one run

\* what the editor may hold
EditorTexts == {DefaultQuery, SqlSelect, <<" ">>, NoText}

\* what GET /api/connections may answer
ConnectionLists == {<< >>, <<"c1">>, <<"c1", "c2">>}

\* error.message of a rejected execute request
ExecuteErrors == {"Query execution failed", "Connection not found or inactive"}

PageRequest(kind, queryId) ==
    [kind |-> kind, queryId |-> queryId, state |-> "pending"]

\* the id the backend mints for the next execute request
NextQueryId ==
    1 + Cardinality({r \in 1..Len(page.sent) : page.sent[r].kind = "execute"})

\* onMount, lines 25-31: the connection list arrives
MountResolves(list) ==
    /\ page.mount = "loading"
    /\ page' = [page EXCEPT
           !.mount = "done",
           !.connections = list,
           !.selectedConnection = IF Len(list) > 0 THEN list[1] ELSE @]
    /\ UNCHANGED <<brokerVars, policyVars, userQueries>>

\* onMount, lines 32-35
MountRejects ==
    /\ page.mount = "loading"
    /\ page' = [page EXCEPT
           !.mount = "done",
           !.queryError = "Failed to load database connections"]
    /\ UNCHANGED <<brokerVars, policyVars, userQueries>>

\* <select bind:value={selectedConnection}>, disabled while executing or
\* when there is no connection
SelectConnection(c) ==
    /\ ~page.isExecuting
    /\ \E i \in 1..Len(page.connections) : page.connections[i] = c
    /\ page' = [page EXCEPT !.selectedConnection = c]
    /\ UNCHANGED <<brokerVars, policyVars, userQueries>>

\* <MonacoEditor bind:value={sqlQuery}>, read-only while executing
EditQuery(text) ==
    /\ ~page.isExecuting
    /\ text \in EditorTexts
    /\ page' = [page EXCEPT !.sqlQuery = text]
    /\ UNCHANGED <<brokerVars, policyVars, userQueries>>

\* executeQuery(), lines 39-50, up to `await queryApi.execute`
PageExecuteQuery ==
    /\ IF page.selectedConnection = "" \/ Trim(page.sqlQuery) = NoText
       THEN page' = [page EXCEPT
                !.queryError = "Please select a connection and enter a query"]
       ELSE /\ Len(page.sent) < MaxPageRequests
            /\ page' = [page EXCEPT
                   !.queryError = Null,
                   !.queryResults = Null,
                   !.isExecuting = TRUE,
                   !.sent = Append(@, PageRequest("execute", NextQueryId))]
    /\ UNCHANGED <<brokerVars, policyVars, userQueries>>

\* the Execute button: rendered when nothing executes, disabled without a
\* connection or a statement
ClickExecute ==
    /\ ~page.isExecuting
    /\ page.selectedConnection # ""
    /\ Trim(page.sqlQuery) # NoText
    /\ PageExecuteQuery

\* a key pressed anywhere in the window: Ctrl+Enter or Cmd+Enter calls
\* executeQuery(), whatever is executing
ExecuteKeys == {"Ctrl+Enter", "Meta+Enter"}

handleKeyPress(event) ==
    /\ event \in ExecuteKeys
    /\ PageExecuteQuery

\* cancelQuery(), lines 77-80, up to `await queryApi.cancel`
PageCancelQuery ==
    /\ IF page.currentQueryId = NoId
       THEN UNCHANGED page
       ELSE /\ Len(page.sent) < MaxPageRequests
            /\ page' = [page EXCEPT
                   !.sent = Append(@, PageRequest("cancel", page.currentQueryId))]
    /\ UNCHANGED <<brokerVars, policyVars, userQueries>>

\* the Cancel Query button: rendered while isExecuting
ClickCancel ==
    /\ page.isExecuting
    /\ PageCancelQuery

\* the backend answers request r: executeQuery resumes at lines 52-65 and
\* runs its finally block (71-72); cancelQuery resumes at lines 81-83
RequestResolves(r) ==
    /\ r \in 1..Len(page.sent)
    /\ page.sent[r].state = "pending"
    /\ IF page.sent[r].kind = "execute"
       THEN LET try == [page EXCEPT
                           !.currentQueryId = page.sent[r].queryId,
                           !.queryResults = "results",
                           !.sent[r].state = "resolved"]
            IN  page' = [try EXCEPT
                            !.isExecuting = FALSE,
                            !.currentQueryId = NoId]
       ELSE page' = [page EXCEPT
                !.queryError = "Query cancelled",
                !.isExecuting = FALSE,
                !.currentQueryId = NoId,
                !.sent[r].state = "resolved"]
    /\ UNCHANGED <<brokerVars, policyVars, userQueries>>

\* the backend rejects request r: executeQuery runs its catch (68-69) and
\* finally (71-72) blocks; cancelQuery logs (line 85)
RequestRejects(r, message) ==
    /\ r \in 1..Len(page.sent)
    /\ page.sent[r].state = "pending"
    /\ message \in ExecuteErrors
    /\ IF page.sent[r].kind = "execute"
       THEN page' = [page EXCEPT
                !.queryError = message,
                !.queryResults = Null,
                !.isExecuting = FALSE,
                !.currentQueryId = NoId,
                !.sent[r].state = "rejected"]
       ELSE page' = [page EXCEPT !.sent[r].state = "rejected"]
    /\ UNCHANGED <<brokerVars, policyVars, userQueries>>

PageNext ==
    \/ \E list \in ConnectionLists : MountResolves(list)
    \/ MountRejects
    \/ \E c \in Connections : SelectConnection(c)
    \/ \E text \in EditorTexts : EditQuery(text)
    \/ ClickExecute
    \/ \E event \in ExecuteKeys : handleKeyPress(event)
    \/ ClickCancel
    \/ \E r \in 1..MaxPageRequests : RequestResolves(r)
    \/ \E r \in 1..MaxPageRequests, message \in ExecuteErrors :
           RequestRejects(r, message)

PageSpec == Init /\ [][PageNext]_vars

-----------------------------------------------------------------------------
\* awaited calls settle: the store answers and the driver call returns
Fairness ==
    /\ \A e \in Execs : WF_vars(ExecStep(e))
    /\ \A k \in CancelSlots : WF_vars(CancelStep(k))

FairSpec == Spec /\ Fairness

-----------------------------------------------------------------------------
(* Properties *)

IsTerminal(id) == id \in DOMAIN history /\ history[id].status \in Terminal

-----------------------------------------------------------------------------
(* C1 *)

\* C1 as stated: once a record's status is success, error or cancelled, no
\* step changes that status
C1_TerminalStatusNeverChanges ==
    [][\A id \in DOMAIN history :
           history[id].status \in Terminal
               => history'[id].status = history[id].status]_vars

-----------------------------------------------------------------------------
(* C2 *)

\* C2 as stated: for each execution id at most one terminal-status update is
\* issued across executeQuery's handlers and cancelQuery (looked at in the
\* runs where the store rejects none of them)
C2_AtMostOneFinalize ==
    faults = 0 => \A id \in Execs : issued[id] <= 1

-----------------------------------------------------------------------------
(* C3 *)

-----------------------------------------------------------------------------
(* C4 *)

\* C4 as stated: a cancelQuery for an id whose record already has a terminal
\* status ends with 'not found', writes nothing to the history and calls
\* cancel() on no request
C4_CancelAfterFinalizeNotFound ==
    [][\A k \in CancelSlots, q \in Execs, u \in Users :
           (IsTerminal(q) /\ CancelQuery(k, q, u))
               => /\ cresult'[k] = "not found"
                  /\ cpc'[k] = "idle"
                  /\ UNCHANGED <<history, requests, issued>>]_vars

-----------------------------------------------------------------------------
(* C5 *)

\* the pool key of a connection: (server, database) of its descriptor
KeyOf(c) == PoolKey(Descriptor(c))

\* _getOrCreatePool calls in progress for connection c
Acquiring(c) ==
    {e \in Execs : pc[e] \in {"config", "connect"} /\ call[e].connectionId = c}

\* C5 as stated: while no pool is registered for a connection's key, the
\* _getOrCreatePool calls in progress for that connection have constructed
\* one pool at most, which is the pool each of them returns
C5_ConcurrentAcquireOnePool ==
    \A c \in Connections :
        KeyOf(c) \notin DOMAIN sqlPools
            => Cardinality({local[e].pool : e \in Acquiring(c)} \ {NoId}) <= 1

-----------------------------------------------------------------------------
(* C6 *)

\* C6 as stated: when a connected pool is registered for the connection's
\* key at the time _getOrCreatePool is called, the call returns that pool and
\* constructs no pool
C6_RegisteredPoolReused ==
    [][\A e \in Execs :
           (/\ pc[e] = "create" /\ e \in DOMAIN history'
            /\ KeyOf(call[e].connectionId) \in DOMAIN sqlPools
            /\ pools[sqlPools[KeyOf(call[e].connectionId)]].connected)
               => /\ pc'[e] = "query"
                  /\ local'[e].pool = sqlPools[KeyOf(call[e].connectionId)]
                  /\ pools' = pools]_vars

-----------------------------------------------------------------------------
(* C7 *)

Denied(e) ==
    /\ pc[e] # "idle"
    /\ ~canExecuteStatement(call[e].userRole, call[e].sql).allowed

\* C7: an executeQuery whose statement the role policy denies has thrown the
\* policy reason; it has created no history record, constructed or taken no
\* pool, registered no tracker entry and created no request
C7_DeniedTouchesNothing ==
    \A e \in Execs :
        Denied(e)
            => /\ pc[e] = "done"
               /\ result[e] =
                      Thrown(canExecuteStatement(call[e].userRole,
                                                 call[e].sql).reason)
               /\ e \notin DOMAIN history
               /\ e \notin DOMAIN pools /\ local[e].pool = NoId
               /\ e \notin DOMAIN runningQueries
               /\ requests[e] = Null

\* a DROP was submitted and refused while another execution is in progress
C7_Witness ==
    \E e \in Execs :
        /\ Denied(e) /\ call[e].sql = SqlDrop /\ result[e].kind = "throw"
        /\ DOMAIN history # {}

-----------------------------------------------------------------------------
(* C8 *)

WordChars == {Upper[i] : i \in 1..Len(Upper)} \cup {"_"}

\* the first token of a text: its longest prefix of word characters
LeadingKeyword(text) ==
    LET stops == {i \in 1..Len(text) : text[i] \notin WordChars}
    IN  IF stops = {} THEN text
        ELSE SubSeq(text, 1, (CHOOSE i \in stops : \A j \in stops : i <= j) - 1)

ToSet(list) == {list[i] : i \in 1..Len(list)}

GrantedAll(role) == KW_ALL \in ToSet(getRolePermissions(role).allowedStatements)

\* the reason names keyword kw
Names(reason, kw) ==
    Includes(reason, <<" ">> \o kw \o
                     <<" ", "s", "t", "a", "t", "e", "m", "e", "n", "t", "s">>)

Normalized == ToUpperCase(Trim(authSql))

\* C8 as stated: a statement whose leading keyword is not in the role's
\* allowed set is denied; the reason names the leading keyword when it is one
\* of the definition/administrative keywords and is the generic one otherwise
C8_DeniedByLeadingKeyword ==
    (/\ authResult # NoAuth
     /\ ~GrantedAll(authRole)
     /\ LeadingKeyword(Normalized)
            \notin ToSet(getRolePermissions(authRole).allowedStatements))
    => /\ ~authResult.allowed
       /\ IF LeadingKeyword(Normalized) \in ToSet(ddlKeywords)
          THEN Names(authResult.reason, LeadingKeyword(Normalized))
          ELSE authResult.reason = GenericReason(authRole)

\* C8 amended: a statement whose trimmed, upper-cased text starts with no
\* keyword of the role's allowed set is denied; when that text starts with one
\* of the definition/administrative keywords the reason names the longest one
\* it starts with, otherwise the reason is the generic one
C8_DeniedByPrefix ==
    LET prefixes ==
            {kw \in ToSet(ddlKeywords) : StartsWith(Normalized, kw)}
    IN  (/\ authResult # NoAuth
         /\ ~GrantedAll(authRole)
         /\ \A kw \in ToSet(getRolePermissions(authRole).allowedStatements) :
                ~StartsWith(Normalized, kw))
        => /\ ~authResult.allowed
           /\ IF prefixes # {}
              THEN \E kw \in prefixes :
                      /\ \A other \in prefixes : Len(other) <= Len(kw)
                      /\ Names(authResult.reason, kw)
              ELSE authResult.reason = GenericReason(authRole)

\* an EXECUTE statement was denied to a role that may not run it
C8_Witness ==
    /\ authResult # NoAuth
    /\ authRole = "ANALYST"
    /\ StartsWith(Normalized, KW_EXECUTE)
    /\ ~authResult.allowed

-----------------------------------------------------------------------------
(* C9 *)

\* C9: a returned result has returnedRows = min(totalRows, maxRows) with
\* totalRows the number of rows of the driver's recordset and maxRows the
\* role's limit; its data are the first returnedRows rows in driver order;
\* truncated is true exactly when totalRows > maxRows
C9_ResultShape ==
    \A e \in Execs :
        result[e].kind = "return"
            => LET total   == Length(local[e].recordset)
                   maxRows == ROLE_PERMISSIONS[call[e].userRole].maxRows
               IN  /\ result[e].totalRows = total
                   /\ result[e].returnedRows = Min(total, maxRows)
                   /\ result[e].data.first = local[e].recordset.first
                   /\ Length(result[e].data) = result[e].returnedRows
                   /\ result[e].truncated = (total > maxRows)

\* a result was returned truncated
C9_Witness ==
    \E e \in Execs :
        /\ result[e].kind = "return" /\ result[e].truncated
        /\ result[e].returnedRows < result[e].totalRows

-----------------------------------------------------------------------------
(* C10 *)

-----------------------------------------------------------------------------
(* C11 *)

\* C11: a cancelQuery for an id that has no tracker entry (never submitted,
\* still acquiring its pool, or already deregistered) ends with 'not found'
\* and changes neither the tracker nor any history record; it calls cancel()
\* on no request and issues no update
C11_UnregisteredCancelNotFound ==
    [][\A k \in CancelSlots, q \in Execs, u \in Users :
           (q \notin DOMAIN runningQueries /\ CancelQuery(k, q, u))
               => /\ cresult'[k] = "not found"
                  /\ cpc'[k] = "idle"
                  /\ UNCHANGED <<runningQueries, history, requests, issued,
                                 cwrite>>]_vars

\* a cancel ended with 'not found' while an execution whose record exists is
\* still acquiring its pool, its record running and nothing registered
C11_Witness ==
    \E k \in CancelSlots, e \in Execs :
        /\ cresult[k] = "not found"
        /\ pc[e] \in {"config", "connect"}
        /\ e \notin DOMAIN runningQueries
        /\ e \in DOMAIN history /\ history[e].status = "running"
        /\ requests[e] = Null

-----------------------------------------------------------------------------
(* C12 *)

\* C12 as stated: once cancel() has been delivered to the request of an
\* execution, every cancelQuery processed for that id ends with 'not found'
C12_NoAnswerAfterCancelSignal ==
    [][\A k \in CancelSlots, q \in Execs, u \in Users :
           (requests[q] = "cancelled" /\ CancelQuery(k, q, u))
               => cresult'[k] = "not found"]_vars

-----------------------------------------------------------------------------
(* C13 *)

\* C13 as stated: when the owner's cancel was delivered to a registered,
\* running execution and the driver then failed the statement with its
\* cancellation error, then (the store having accepted every update, and both
\* handlers having finished) the record has status cancelled and a
\* cancellation timestamp, and executeQuery has thrown a cancellation error
C13_CancelledEndsCancelled ==
    \A e \in Execs :
        (/\ faults = 0
         /\ pc[e] = "done"
         /\ requests[e] = "cancelled"
         /\ local[e].caught \in DriverCancellations
         /\ \A k \in CancelSlots : ccall[k].queryId # e)
        => /\ history[e].status = "cancelled"
           /\ "cancelledAt" \in DOMAIN history[e]
           /\ result[e].kind = "throw"
           /\ result[e].message \in DriverCancellations \cup {CancelledByUser}

-----------------------------------------------------------------------------
(* C14 *)

\* C14 as stated: a record has status cancelled only if a cancelQuery by the
\* owner was accepted for its id (cancel() was called on its request)
C14_CancelledOnlyByUser ==
    \A id \in DOMAIN history :
        history[id].status = "cancelled" => requests[id] = "cancelled"

-----------------------------------------------------------------------------
(* C15 *)

\* pools whose connect attempt failed (slot p constructs pool p)
FailedPools ==
    {p \in DOMAIN pools :
        ~pools[p].connected /\ ~pools[p].closed /\ pc[p] # "connect"}

Registered == {sqlPools[key] : key \in DOMAIN sqlPools}

\* C15: a failed connect registers nothing (the registry is left as it was
\* and never holds a pool whose connect failed), and an acquisition that
\* returns hands out a connected pool, never one whose connect failed
C15_FailedConnectNotRegistered ==
    [][/\ \A e \in Execs : ConnectThrows(e) => sqlPools' = sqlPools
       /\ Registered' \cap FailedPools' = {}
       /\ \A e \in Execs :
              (pc[e] # "query" /\ pc'[e] = "query")
                  => /\ local'[e].pool \notin FailedPools'
                     /\ pools'[local'[e].pool].connected]_vars

\* the connect of one acquisition has failed, nothing is registered for it,
\* and a later acquisition for the same connection is connecting a pool of
\* its own
C15_Witness ==
    \E e \in Execs, d \in Execs :
        /\ e < d
        /\ local[e].caught = DriverConnectFailed /\ e \in FailedPools
        /\ e \notin Registered
        /\ call[d].connectionId = call[e].connectionId
        /\ pc[d] = "connect" /\ local[d].pool = d

-----------------------------------------------------------------------------
(* C16 *)

\* C16 as stated: an executeQuery aimed at a connection whose descriptor is
\* missing or inactive is rejected with no history record, no pool and no
\* tracker entry created for it
C16_InactiveTouchesNothing ==
    \A e \in Execs :
        (/\ pc[e] # "idle"
         /\ canExecuteStatement(call[e].userRole, call[e].sql).allowed
         /\ ~Descriptor(call[e].connectionId).isActive)
        => /\ e \notin DOMAIN history
           /\ e \notin DOMAIN pools
           /\ e \notin DOMAIN runningQueries

-----------------------------------------------------------------------------
(* C17 *)

\* C17: closeAllSqlPools closes every pool the registry holds and leaves the
\* registry empty; the registry never holds a closed pool, and an acquisition
\* that returns hands out a pool that is not closed
C17_CloseAllEmptiesRegistry ==
    [][/\ closeAllSqlPools
           => /\ \A p \in Registered : pools'[p].closed
              /\ sqlPools' = << >>
       /\ \A p \in Registered' : ~pools'[p].closed
       /\ \A e \in Execs :
              (pc[e] # "query" /\ pc'[e] = "query")
                  => ~pools'[local'[e].pool].closed]_vars

\* a registered pool was closed, and an acquisition for the same connection
\* has since returned a pool of its own, open and registered
C17_Witness ==
    \E p \in DOMAIN pools, e \in Execs :
        /\ pools[p].closed
        /\ e # p /\ call[e].connectionId = call[p].connectionId
        /\ pc[e] = "query" /\ local[e].pool = e
        /\ pools[e].connected /\ ~pools[e].closed
        /\ e \in Registered

-----------------------------------------------------------------------------
(* C19 *)

\* C19: getRunningQueries(userId) returns exactly the registered executions
\* owned by userId, each once and with its connection id; it lists no
\* execution of another user and omits none of this user's, and it changes
\* nothing
C19_ListsOwnRunningQueries ==
    [][\A u \in Users :
           GetRunningQueries(u)
               => /\ userQueries'.userId = u
                  /\ \A q \in Execs :
                         (q \in DOMAIN runningQueries
                              /\ runningQueries[q].userId = u)
                         <=> (\E r \in userQueries'.queries : r.queryId = q)
                  /\ \A r \in userQueries'.queries :
                         r.connectionId =
                             runningQueries[r.queryId].connectionId
                  /\ Cardinality(userQueries'.queries)
                         = Cardinality({q \in DOMAIN runningQueries :
                                           runningQueries[q].userId = u})
                  /\ runningQueries' = runningQueries]_vars

\* a listing was returned that names an execution of the caller while an
\* execution of another user is registered and not named
C19_Witness ==
    /\ userQueries # NoListing
    /\ \E q \in DOMAIN runningQueries, o \in DOMAIN runningQueries :
           /\ runningQueries[q].userId = userQueries.userId
           /\ runningQueries[o].userId # userQueries.userId
           /\ \E r \in userQueries.queries : r.queryId = q
           /\ \A r \in userQueries.queries : r.queryId # o

-----------------------------------------------------------------------------
(* C18 *)

\* C18 as stated: deleteOlderThan deletes only records that are in a
\* terminal status and older than the retention window; a record whose status
\* is running is never deleted
C18_PurgeSparesRunning ==
    [][\A today \in Days, days \in Days :
           DeleteOlderThan(today, days)
               => \A id \in DOMAIN history \ DOMAIN history' :
                      /\ history[id].status \in Terminal
                      /\ history[id].createdAt < today - days]_vars

-----------------------------------------------------------------------------
(* C20 *)

\* C20: for a role name outside the fixed set getRolePermissions returns the
\* VIEWER entry, which is the most restrictive policy: every statement
\* keyword it allows is granted to every role (listed, or through '*'), its
\* maxRows and queryTimeoutMs are the least of all roles, and a statement
\* canExecuteStatement allows to the unknown role is allowed to every role
C20_UnknownRoleMostRestrictive ==
    (authResult # NoAuth /\ authRole \notin ROLES)
    => LET permissions == getRolePermissions(authRole)
       IN  /\ permissions = ROLE_PERMISSIONS["VIEWER"]
           /\ \A r \in ROLES :
                  /\ \A kw \in ToSet(permissions.allowedStatements) :
                         \/ kw \in ToSet(ROLE_PERMISSIONS[r].allowedStatements)
                         \/ KW_ALL \in ToSet(ROLE_PERMISSIONS[r].allowedStatements)
                  /\ permissions.maxRows <= ROLE_PERMISSIONS[r].maxRows
                  /\ permissions.queryTimeoutMs
                         <= ROLE_PERMISSIONS[r].queryTimeoutMs
                  /\ authResult.allowed
                         => canExecuteStatement(r, authSql).allowed

\* canExecuteStatement was applied to a role name outside the fixed set and
\* allowed it a SELECT
C20_Witness ==
    /\ authRole = UnknownRole
    /\ authResult # NoAuth
    /\ authResult.allowed
    /\ authResult.statement = KW_SELECT

-----------------------------------------------------------------------------
(* C21 *)

\* C21 as stated: the steps of an execution occur in the order role check,
\* record created, pool acquired, tracker entry registered, statement
\* executed, tracker entry removed, terminal status written: a record exists
\* only for an allowed statement, a pool is held only once the record exists,
\* a tracker entry exists only once the pool is held, and a step that writes
\* a terminal status to a record finds no tracker entry for its id
C21_DeregisterBeforeFinalize ==
    [][\A id \in Execs :
           /\ id \in DOMAIN history'
                  => canExecuteStatement(call'[id].userRole,
                                         call'[id].sql).allowed
           /\ local'[id].pool # NoId => id \in DOMAIN history'
           /\ id \in DOMAIN runningQueries' => local'[id].pool # NoId
           /\ (/\ id \in DOMAIN history
               /\ history[id].status \notin Terminal
               /\ history'[id].status \in Terminal)
                  => id \notin DOMAIN runningQueries]_vars

-----------------------------------------------------------------------------
(* C22 *)

\* the connect attempt of execution e failed and executeQuery has settled
AcquireFailed(e) ==
    pc[e] = "done" /\ local[e].caught = DriverConnectFailed

-----------------------------------------------------------------------------
(* C23 *)

\* C23 as stated: when the driver fails a statement with its timeout error
\* and no cancel was delivered to the request, then, once executeQuery has
\* settled, the record has status error with the driver's text, the tracker
\* entry is removed and the driver's error was thrown to the caller
C23_TimeoutEndsError ==
    \A e \in Execs :
        (/\ pc[e] = "done"
         /\ local[e].caught = DriverTimeout
         /\ requests[e] # "cancelled")
        => /\ history[e].status = "error"
           /\ "errorMessage" \in DOMAIN history[e]
           /\ history[e].errorMessage = DriverTimeout
           /\ e \notin DOMAIN runningQueries
           /\ result[e] = Thrown(DriverTimeout)

-----------------------------------------------------------------------------
(* C24 *)

-----------------------------------------------------------------------------
(* C25 *)

\* C25 as stated: a cancelQuery that has delivered the cancel signal ends
\* with an acknowledgement and with the tracker entry removed, whether its
\* history update is accepted or rejected
C25_CancelAcknowledged ==
    [][\A k \in CancelSlots :
           (cpc[k] = "update" /\ cpc'[k] = "idle")
               => /\ cresult'[k] = "cancelled"
                  /\ ccall[k].queryId \notin DOMAIN runningQueries']_vars

-----------------------------------------------------------------------------
(* C27 *)

\* C27 as stated: once an executeQuery call has returned or thrown, the
\* tracker holds no entry for its execution id
C27_SettledNotTracked ==
    \A e \in Execs : pc[e] = "done" => e \notin DOMAIN runningQueries

-----------------------------------------------------------------------------
(* C28 *)

\* C28 as stated: every pool that is connected and not closed is held in the
\* registry, and after closeAllSqlPools no pool is left connected
C28_OpenPoolsRegistered ==
    [][/\ \A p \in DOMAIN pools' :
              (pools'[p].connected /\ ~pools'[p].closed) => p \in Registered'
       /\ closeAllSqlPools
              => \A p \in DOMAIN pools' : ~pools'[p].connected]_vars

-----------------------------------------------------------------------------
(* C29 *)

\* the tracker entry and the history record of every id but `id` stay as
\* they are
OthersUnchanged(id) ==
    \A o \in Execs \ {id} :
        /\ (o \in DOMAIN history) <=> (o \in DOMAIN history')
        /\ o \in DOMAIN history => history'[o] = history[o]
        /\ (o \in DOMAIN runningQueries) <=> (o \in DOMAIN runningQueries')
        /\ o \in DOMAIN runningQueries
               => runningQueries'[o] = runningQueries[o]

\* C29: a step of one execution (its completion, its failure, a cancel
\* aimed at it) changes the tracker entry and the history record of no other
\* execution id
C29_OtherExecutionsUntouched ==
    [][/\ \A e \in Execs : ExecStep(e) => OthersUnchanged(e)
       /\ \A k \in CancelSlots :
              CancelStep(k) => OthersUnchanged(ccall[k].queryId)
       /\ \A k \in CancelSlots, q \in Execs, u \in Users :
              CancelQuery(k, q, u) => OthersUnchanged(q)]_vars

\* two executions of the same user on the same connection: one has settled
\* with a terminal status and is deregistered, the other is still registered
\* and running
C29_Witness ==
    \E e \in Execs, o \in Execs :
        /\ e # o
        /\ call[e].userId = call[o].userId
        /\ call[e].connectionId = call[o].connectionId
        /\ pc[e] = "done" /\ IsTerminal(e) /\ e \notin DOMAIN runningQueries
        /\ o \in DOMAIN runningQueries /\ history[o].status = "running"

-----------------------------------------------------------------------------
(* C30 *)

\* C30: along VIEWER, ANALYST, DEVELOPER, ADMIN a statement that
\* canExecuteStatement allows for a role is allowed for every later role, and
\* maxRows and queryTimeoutMs never decrease
C30_PrivilegesNested ==
    (authResult # NoAuth /\ authRole \in ROLES)
    => \A i \in 1..Len(RoleOrder), j \in 1..Len(RoleOrder) :
           i < j
           => /\ (RoleOrder[i] = authRole /\ authResult.allowed)
                     => canExecuteStatement(RoleOrder[j], authSql).allowed
              /\ ROLE_PERMISSIONS[RoleOrder[i]].maxRows
                     <= ROLE_PERMISSIONS[RoleOrder[j]].maxRows
              /\ ROLE_PERMISSIONS[RoleOrder[i]].queryTimeoutMs
                     <= ROLE_PERMISSIONS[RoleOrder[j]].queryTimeoutMs

\* an UPDATE was allowed to ANALYST, a role that is neither the first nor
\* the last of the order
C30_Witness ==
    /\ authRole = "ANALYST"
    /\ authResult # NoAuth
    /\ authResult.allowed
    /\ authResult.statement = KW_UPDATE

-----------------------------------------------------------------------------
(* C26 *)

\* C26 as stated: in the query page, as long as an execute request is
\* pending currentQueryId holds the id of its query, and the Cancel Query
\* action taken meanwhile sends a cancel request carrying that id
C26_CancelCarriesInFlightId ==
    [][/\ \A r \in 1..Len(page'.sent) :
              (page'.sent[r].kind = "execute" /\ page'.sent[r].state = "pending")
                  => page'.currentQueryId = page'.sent[r].queryId
       /\ (ClickCancel /\ \E r \in 1..Len(page.sent) :
                              /\ page.sent[r].kind = "execute"
                              /\ page.sent[r].state = "pending")
              => \E r \in 1..Len(page.sent), c \in 1..Len(page'.sent) :
                     /\ page.sent[r].kind = "execute"
                     /\ page.sent[r].state = "pending"
                     /\ c > Len(page.sent)
                     /\ page'.sent[c].kind = "cancel"
                     /\ page'.sent[c].queryId = page.sent[r].queryId]_vars

====
